---- MODULE Spec2Model ----
(***************************************************************************)
(* Schema-versioning and tenant-isolated generic data-access engine of     *)
(* cecon/erp-dsl: the merge engine (MergeService), the page-version         *)
(* lifecycle (PageDomainService and its use cases), the tenant filter      *)
(* (tenant_context) and the generic record repository                       *)
(* (GenericCrudRepository).                                                 *)
(***************************************************************************)
EXTENDS Integers, Sequences, FiniteSets, TLC

VARIABLES
    heap,        \* merge engine: the Python object heap, a sequence of containers
    baseRef,     \* merge engine: slot of the `base` argument
    overrideRef, \* merge engine: slot of the `override` argument
    resultRef,   \* merge engine: slot of the returned document (NoSlot before the call)
    mpc,         \* merge engine: "ready" | "merged" | "mutated"
    base0,       \* merge engine: value of `base` before the call
    override0,   \* merge engine: value of `override` before the call
    merged0,     \* merge engine: value of the result when deep_merge returned
    versions,    \* page_versions: the committed rows, row i has id i
    uow,         \* page_versions as the unit of work saw them when the last call ended
    last,        \* the last lifecycle call: operation, target, error, returned id
    tx,          \* concurrent publish requests: each one's position, reads and writes
    table,       \* record store: the table the requests of this behaviour address
    store,       \* record store: the committed rows of that table
    work,        \* record store: the rows as the last request's unit of work left them
    call,        \* record store: the last repository call, its arguments and its outcome
    upd,         \* concurrent update requests: each one's position, write and outcome
    icpt,        \* session event: the session's marker, the statement issued, the one executed
    probe        \* repository call on a given store: its arguments and all it returned

mvars == <<heap, baseRef, overrideRef, resultRef, mpc, base0, override0, merged0>>

lvars == <<versions, uow, last>>

cvars == <<table, store, work, call, upd>>

vars == <<mvars, lvars, tx, cvars, icpt, probe>>

(***************************************************************************)
(* JSON-like documents.                                                    *)
(*   value  : [t |-> "s", n |-> n]            a scalar                      *)
(*            [t |-> "m", f |-> [key |-> value]]   a dict (== ignores order) *)
(*            [t |-> "l", q |-> <<value, ...>>]    a list                   *)
(*   slot   : [t |-> "s", v |-> n]  an immutable scalar held in place, or   *)
(*            [t |-> "r", v |-> a]  a reference to container a of the heap  *)
(*   container : [t |-> "m" | "l", es |-> <<[k |-> key, s |-> slot], ...>>] *)
(*            a dict keeps its keys in insertion order; a list entry has    *)
(*            k = "".                                                       *)
(***************************************************************************)

\* Bound: longest list in the documents handed to deep_merge.
MaxLen == 2

NoSlot == [t |-> "none", v |-> 0]

SlotS(n) == [t |-> "s", v |-> n]

SlotR(a) == [t |-> "r", v |-> a]

VS(n) == [t |-> "s", n |-> n]

VM(f) == [t |-> "m", f |-> f]

VL(q) == [t |-> "l", q |-> q]

\* Fixed order in which the keys of an input dict were inserted.
KeyOrder == <<"id", "a", "b", "items", "m">>

Alloc(h, node) == [h |-> Append(h, node), s |-> SlotR(Len(h) + 1)]

IsDict(h, s) == s.t = "r" /\ h[s.v].t = "m"

IsList(h, s) == s.t = "r" /\ h[s.v].t = "l"

\* Position of `key` among the entries of dict a, 0 when absent (`key in target`).
KeyIndex(h, a, key) ==
    LET hits == {i \in 1..Len(h[a].es) : h[a].es[i].k = key}
    IN IF hits = {} THEN 0 ELSE CHOOSE i \in hits : TRUE

HasKey(h, a, key) == KeyIndex(h, a, key) # 0

GetKey(h, a, key) == h[a].es[KeyIndex(h, a, key)].s

RECURSIVE Val(_, _)
\* The value a slot denotes (what == compares).
Val(h, s) ==
    IF s.t = "s" THEN VS(s.v)
    ELSE IF h[s.v].t = "m"
         THEN VM([key \in {h[s.v].es[i].k : i \in 1..Len(h[s.v].es)} |->
                     Val(h, GetKey(h, s.v, key))])
         ELSE VL([i \in 1..Len(h[s.v].es) |-> Val(h, h[s.v].es[i].s)])

RECURSIVE Reach(_, _)
\* The containers reachable from a slot.
Reach(h, s) ==
    IF s.t # "r" THEN {}
    ELSE {s.v} \cup UNION {Reach(h, h[s.v].es[i].s) : i \in 1..Len(h[s.v].es)}

RECURSIVE Build(_, _)
RECURSIVE BuildEntries(_, _, _, _, _)
\* Loads a document value into the heap as a fresh tree of containers.
Build(h, val) ==
    IF val.t = "s" THEN [h |-> h, s |-> SlotS(val.n)]
    ELSE IF val.t = "m"
         THEN LET ks == SelectSeq(KeyOrder, LAMBDA key : key \in DOMAIN val.f)
                  r == BuildEntries(h, [i \in 1..Len(ks) |-> val.f[ks[i]]], ks, 1, <<>>)
              IN Alloc(r.h, [t |-> "m", es |-> r.es])
         ELSE LET r == BuildEntries(h, val.q, [i \in 1..Len(val.q) |-> ""], 1, <<>>)
              IN Alloc(r.h, [t |-> "l", es |-> r.es])

BuildEntries(h, vals, ks, i, acc) ==
    IF i > Len(vals) THEN [h |-> h, es |-> acc]
    ELSE LET c == Build(h, vals[i])
         IN BuildEntries(c.h, vals, ks, i + 1, Append(acc, [k |-> ks[i], s |-> c.s]))

RECURSIVE deepcopy(_, _)
RECURSIVE CopyEntries(_, _, _, _)
\* copy.deepcopy of a tree: fresh containers, scalars kept in place.
deepcopy(h, s) ==
    IF s.t # "r" THEN [h |-> h, s |-> s]
    ELSE LET r == CopyEntries(h, h[s.v].es, 1, <<>>)
         IN Alloc(r.h, [t |-> h[s.v].t, es |-> r.es])

CopyEntries(h, es, i, acc) ==
    IF i > Len(es) THEN [h |-> h, es |-> acc]
    ELSE LET c == deepcopy(h, es[i].s)
         IN CopyEntries(c.h, es, i + 1, Append(acc, [k |-> es[i].k, s |-> c.s]))

(***************************************************************************)
(* MergeService (domain/services/merge_service.py).                        *)
(***************************************************************************)

RECURSIVE merge_into(_, _, _)
RECURSIVE MergeKeys(_, _, _, _)
RECURSIVE merge_key(_, _, _, _)
RECURSIVE merge_arrays(_, _, _)
RECURSIVE BuildIndex(_, _, _, _)
RECURSIVE MergeOverrides(_, _, _, _)
RECURSIVE Uniq(_, _, _)

\* item["id"] of a list element (ids are scalars: a dict key must be hashable).
ItemId(h, s) == GetKey(h, s.v, "id").v

\* all(isinstance(item, dict) and "id" in item for item in arr)
has_ids(h, a) ==
    \A i \in 1..Len(h[a].es) : IsDict(h, h[a].es[i].s) /\ HasKey(h, h[a].es[i].s.v, "id")

\* The elements of q in order of first occurrence (the `seen` sets of _merge_arrays).
Uniq(q, i, acc) ==
    IF i > Len(q) THEN acc
    ELSE Uniq(q, i + 1, IF \E j \in 1..Len(acc) : acc[j] = q[i] THEN acc ELSE Append(acc, q[i]))

IndexPut(idx, id, a) == [x \in (DOMAIN idx) \cup {id} |-> IF x = id THEN a ELSE idx[x]]

\* base_index = {item["id"]: copy.deepcopy(item) for item in base_arr}
BuildIndex(h, es, i, idx) ==
    IF i > Len(es) THEN [h |-> h, idx |-> idx]
    ELSE LET c == deepcopy(h, es[i].s)
         IN BuildIndex(c.h, es, i + 1, IndexPut(idx, ItemId(h, es[i].s), c.s.v))

\* for item in override_arr: merge into, or add to, base_index
MergeOverrides(h, idx, es, i) ==
    IF i > Len(es) THEN [h |-> h, idx |-> idx]
    ELSE LET id == ItemId(h, es[i].s)
         IN IF id \in DOMAIN idx
            THEN MergeOverrides(merge_into(h, idx[id], es[i].s.v), idx, es, i + 1)
            ELSE LET c == deepcopy(h, es[i].s)
                 IN MergeOverrides(c.h, IndexPut(idx, id, c.s.v), es, i + 1)

\* merge_arrays without the keying by id: the override's elements are appended to the base's
\* instead of being merged by id.
merge_arrays_concat(h, b, o) ==
    LET cb == CopyEntries(h, h[b].es, 1, <<>>)
        co == CopyEntries(cb.h, h[o].es, 1, <<>>)
    IN Alloc(co.h, [t |-> "l", es |-> cb.es \o co.es])

\* MergeService._merge_arrays(base_arr, override_arr): b and o are list containers.
merge_arrays(h, b, o) ==
    LET bes == h[b].es
        oes == h[o].es
    IN IF Len(bes) = 0 \/ Len(oes) = 0
       THEN (IF Len(oes) # 0 THEN deepcopy(h, SlotR(o)) ELSE deepcopy(h, SlotR(b)))
       ELSE IF ~(has_ids(h, b) /\ has_ids(h, o))
       THEN deepcopy(h, SlotR(o))
       ELSE LET bi == BuildIndex(h, bes, 1, <<>>)
                mi == MergeOverrides(bi.h, bi.idx, oes, 1)
                ids == Uniq([i \in 1..(Len(bes) + Len(oes)) |->
                               IF i <= Len(bes) THEN ItemId(h, bes[i].s)
                               ELSE ItemId(h, oes[i - Len(bes)].s)], 1, <<>>)
            IN Alloc(mi.h, [t |-> "l",
                            es |-> [j \in 1..Len(ids) |-> [k |-> "", s |-> SlotR(mi.idx[ids[j]])]]])

\* merge_key with the base kept: on a conflict that is neither dict/dict nor list/list the
\* base's value is kept.
merge_key_base_wins(h, t, key, sv) ==
    LET idx == KeyIndex(h, t, key)
    IN IF idx = 0
       THEN LET c == deepcopy(h, sv)
            IN [c.h EXCEPT ![t].es = Append(@, [k |-> key, s |-> c.s])]
       ELSE LET tv == h[t].es[idx].s
            IN IF IsDict(h, tv) /\ IsDict(h, sv)
               THEN merge_into(h, tv.v, sv.v)
               ELSE IF IsList(h, tv) /\ IsList(h, sv)
               THEN LET r == merge_arrays(h, tv.v, sv.v)
                    IN [r.h EXCEPT ![t].es[idx].s = r.s]
               ELSE h

\* One iteration of the loop of MergeService._merge_into: target[key] from source_val.
merge_key(h, t, key, sv) ==
    LET idx == KeyIndex(h, t, key)
    IN IF idx = 0
       THEN LET c == deepcopy(h, sv)
            IN [c.h EXCEPT ![t].es = Append(@, [k |-> key, s |-> c.s])]
       ELSE LET tv == h[t].es[idx].s
            IN IF IsDict(h, tv) /\ IsDict(h, sv)
               THEN merge_into(h, tv.v, sv.v)
               ELSE IF IsList(h, tv) /\ IsList(h, sv)
               THEN LET r == merge_arrays(h, tv.v, sv.v)
                    IN [r.h EXCEPT ![t].es[idx].s = r.s]
               ELSE LET c == deepcopy(h, sv)
                    IN [c.h EXCEPT ![t].es[idx].s = c.s]

MergeKeys(h, t, es, i) ==
    IF i > Len(es) THEN h
    ELSE MergeKeys(merge_key(h, t, es[i].k, es[i].s), t, es, i + 1)

\* MergeService._merge_into(target, source): t and src are dict containers.
merge_into(h, t, src) == MergeKeys(h, t, h[src].es, 1)

\* deep_merge without the copy: the override is merged into base itself, without the copy.
deep_merge_in_place(h, b, o) == [h |-> merge_into(h, b.v, o.v), s |-> b]

\* MergeService.deep_merge(base, override): returns the heap and the result's slot.
deep_merge(h, b, o) ==
    LET c == deepcopy(h, b)
    IN [h |-> merge_into(c.h, c.s.v, o.v), s |-> c.s]

\* deep_merge(x, y) of two dict values, run on a heap of its own.
MergeVal(x, y) ==
    LET rb == Build(<<>>, x)
        ro == Build(rb.h, y)
        r == deep_merge(ro.h, rb.s, ro.s)
    IN Val(r.h, r.s)

(***************************************************************************)
(* Documents handed to deep_merge.                                         *)
(***************************************************************************)

Elems ==
    { VM([id |-> VS(1), a |-> VS(1)]),
      VM([id |-> VS(1), a |-> VS(2), b |-> VS(2)]),
      VM([id |-> VS(2), a |-> VS(1)]),
      VM([a |-> VS(1)]),
      VS(1) }

Lists == UNION {[1..n -> Elems] : n \in 0..MaxLen}

Docs ==
    {VM([items |-> VL(q)]) : q \in Lists}
    \cup { VM([items |-> VS(1)]),
           VM([items |-> VM([a |-> VS(1)])]),
           VM([m |-> VM([a |-> VS(1)]), a |-> VS(1)]),
           VM([m |-> VM([a |-> VS(2), b |-> VS(1)]), b |-> VS(2)]),
           VM([m |-> VS(2), a |-> VS(2)]),
           VM(<<>>) }


(***************************************************************************)
(* Page versions (domain/entities/page_version.py) and their store         *)
(* (PageRepositoryImpl over the page_versions table).                      *)
(***************************************************************************)

\* Bound: most rows of page_versions.
MaxVersions == 3

NoTenant == "-"

Tenants == {"t1", "t2"}

\* Page keys and tenants a request may name; drafts are created for the first
\* key and the first tenant only.
PageKeys == {"products", "orders"}

DraftKeys == {"products"}

Scopes == {"global", "tenant"}

\* (scope, tenant_id) of the drafts a caller creates: CreateDraftUseCase derives
\* the scope from the tenant, the service also accepts a tenant scope without one.
DraftTenants == {"t1", "t2"}

DraftArgs == {<<"global", NoTenant>>} \cup {<<"tenant", t>> : t \in DraftTenants \cup {NoTenant}}

\* schema_json of the drafts a caller creates, by scope.
DraftDocs(scope) ==
    IF scope = "global"
    THEN {VM([a |-> VS(1), b |-> VS(1)]), VM([b |-> VS(2)])}
    ELSE {VM([a |-> VS(2)])}

NoLast == [op |-> "none", vid |-> 0, page_key |-> "", tenant_id |-> NoTenant, err |-> "", ret |-> 0]

\* The publish requests that run concurrently.
Procs == {1, 2}

\* A request that has not started: no version read, no row written.
IdleTx == [pc |-> "start", vid |-> 0, status |-> "", cur |-> 0, wArchive |-> 0, wPublish |-> 0]

\* No repository call yet.
NoCall ==
    [op |-> "none", marker |-> NoTenant, tenant_id |-> NoTenant, id |-> 0, data |-> <<>>,
     ev |-> 0, out |-> "", ret |-> {}, total |-> 0, exc |-> <<0, 0>>]

\* An update request that has not issued its statement.
IdleUpd == [pc |-> "start", data |-> <<>>, old |-> {}, new |-> {}, out |-> ""]

\* The merge engine before any document is built.
IdleMerge ==
    /\ heap = <<>>
    /\ baseRef = NoSlot
    /\ overrideRef = NoSlot
    /\ resultRef = NoSlot
    /\ mpc = "idle"
    /\ base0 = VS(0)
    /\ override0 = VS(0)
    /\ merged0 = VS(0)

\* The record store before any table is addressed.
NoIntercept == [pc |-> "none"]

IdleIntercept == icpt = NoIntercept

NoProbe == [fn |-> "none"]

IdleProbe == probe = NoProbe

IdleCrud ==
    /\ table = ""
    /\ store = {}
    /\ work = {}
    /\ call = NoCall
    /\ upd = [p \in Procs |-> IdleUpd]

\* The state of the store before the first request.
InitStore ==
    /\ versions = <<>>
    /\ uow = <<>>
    /\ last = NoLast
    /\ tx = [p \in Procs |-> IdleTx]

\* PageVersion(...): the entity, with its row's id left to the store.
PageVersion(k, scope, t, base, num, doc, status) ==
    [page_key |-> k, scope |-> scope, tenant_id |-> t, base_version_id |-> base,
     version_number |-> num, schema_json |-> doc, status |-> status]

\* What a service call leaves: the rows of its unit of work, the error raised
\* ("" when it returned) and the id of the version returned.
Ok(rows, id) == [rows |-> rows, err |-> "", ret |-> id]

Fail(rows, err) == [rows |-> rows, err |-> err, ret |-> 0]

\* PageRepositoryImpl.get_published: the ids of the rows its WHERE clause matches
\* (the statement returns one of them: LIMIT 1 without ORDER BY).
get_published(rows, k, scope, t) ==
    {i \in DOMAIN rows : /\ rows[i].page_key = k
                         /\ rows[i].scope = scope
                         /\ rows[i].status = "published"
                         /\ rows[i].tenant_id = t}

\* The outcomes of `get_published(...)`: 0 for None.
PickPublished(rows, k, scope, t) ==
    IF get_published(rows, k, scope, t) = {} THEN {0} ELSE get_published(rows, k, scope, t)

\* get_latest_version_number without the condition on tenant_id.
get_latest_version_number_any_tenant(rows, k, scope, t) ==
    LET nums == {rows[i].version_number :
                    i \in {j \in DOMAIN rows : rows[j].page_key = k /\ rows[j].scope = scope}}
    IN IF nums = {} THEN 0 ELSE CHOOSE n \in nums : \A m \in nums : m <= n

\* PageRepositoryImpl.get_latest_version_number.
get_latest_version_number(rows, k, scope, t) ==
    LET nums == {rows[i].version_number :
                    i \in {j \in DOMAIN rows : /\ rows[j].page_key = k
                                               /\ rows[j].scope = scope
                                               /\ (t # NoTenant => rows[j].tenant_id = t)}}
    IN IF nums = {} THEN 0 ELSE CHOOSE n \in nums : \A m \in nums : m <= n

\* PageVersion.archive() followed by PageRepositoryImpl.update(current_pub).
ArchiveRow(rows, cur) == [rows EXCEPT ![cur].status = "archived"]

(***************************************************************************)
(* PageDomainService (domain/services/page_domain_service.py) and          *)
(* MergePageUseCase (application/use_cases/merge_page.py).                 *)
(***************************************************************************)

\* PageDomainService.create_draft
create_draft(rows, k, scope, doc, t) ==
    IF scope = "tenant" /\ t = NoTenant
    THEN {Fail(rows, "tenant_required")}
    ELSE { LET num == get_latest_version_number(rows, k, scope, t) + 1
               draft == PageVersion(k, scope, t, IF scope = "tenant" THEN g ELSE 0,
                                    num, doc, "draft")
           IN Ok(Append(rows, draft), Len(rows) + 1)
           : g \in PickPublished(rows, k, "global", NoTenant) }

\* publish without the status check of PageVersion.publish.
publish_any_status(rows, vid) ==
    IF vid \notin DOMAIN rows
    THEN {Fail(rows, "not_found")}
    ELSE { LET archived == IF cur = 0 THEN rows ELSE ArchiveRow(rows, cur)
           IN Ok([archived EXCEPT ![vid].status = "published"], vid)
           : cur \in PickPublished(rows, rows[vid].page_key, rows[vid].scope, rows[vid].tenant_id) }

\* PageDomainService.publish
publish(rows, vid) ==
    IF vid \notin DOMAIN rows
    THEN {Fail(rows, "not_found")}
    ELSE LET version == rows[vid]
         IN { LET archived == IF cur = 0 THEN rows ELSE ArchiveRow(rows, cur)
              IN IF version.status # "draft"
                 THEN Fail(archived, "not_draft")
                 ELSE Ok([archived EXCEPT ![vid] = [version EXCEPT !.status = "published"]], vid)
              : cur \in PickPublished(rows, version.page_key, version.scope, version.tenant_id) }

\* PageDomainService.rollback
rollback(rows, k, vid, scope, t) ==
    IF vid \notin DOMAIN rows
    THEN {Fail(rows, "not_found")}
    ELSE LET target == rows[vid]
         IN IF target.page_key # k
            THEN {Fail(rows, "wrong_page")}
            ELSE IF target.status \notin {"archived", "published"}
            THEN {Fail(rows, "not_rollbackable")}
            ELSE { LET archived == IF cur # 0 /\ cur # vid THEN ArchiveRow(rows, cur) ELSE rows
                   IN Ok([archived EXCEPT ![vid] = [target EXCEPT !.status = "published"]], vid)
                   : cur \in PickPublished(rows, k, scope, t) }

\* merge_page storing the tenant's document as it is, without the deep merge.
merge_page_unmerged(rows, k, t) ==
    IF get_published(rows, k, "global", NoTenant) = {}
    THEN {Fail(rows, "no_global")}
    ELSE IF get_published(rows, k, "tenant", t) = {}
    THEN {Fail(rows, "no_tenant")}
    ELSE UNION { { IF r.err # "" THEN r
                   ELSE Ok([r.rows EXCEPT ![r.ret].base_version_id = g], r.ret)
                   : r \in create_draft(rows, k, "tenant", rows[tp].schema_json, t) }
                 : g \in get_published(rows, k, "global", NoTenant),
                   tp \in get_published(rows, k, "tenant", t) }

\* MergePageUseCase.execute
merge_page(rows, k, t) ==
    IF get_published(rows, k, "global", NoTenant) = {}
    THEN {Fail(rows, "no_global")}
    ELSE IF get_published(rows, k, "tenant", t) = {}
    THEN {Fail(rows, "no_tenant")}
    ELSE UNION { { IF r.err # "" THEN r
                   ELSE Ok([r.rows EXCEPT ![r.ret].base_version_id = g], r.ret)
                   : r \in create_draft(rows, k, "tenant",
                                        MergeVal(rows[g].schema_json, rows[tp].schema_json), t) }
                 : g \in get_published(rows, k, "global", NoTenant),
                   tp \in get_published(rows, k, "tenant", t) }

\* get_page asking for the GLOBAL version first.
get_page_global_first(rows, k, t) ==
    IF get_published(rows, k, "global", NoTenant) # {}
    THEN get_published(rows, k, "global", NoTenant)
    ELSE IF t # NoTenant THEN PickPublished(rows, k, "tenant", t) ELSE {0}

\* GetPageUseCase.execute: the tenant's PUBLISHED version when the caller has a
\* tenant and one exists, else the GLOBAL PUBLISHED one, else none (0).
get_page(rows, k, t) ==
    IF t # NoTenant /\ get_published(rows, k, "tenant", t) # {}
    THEN get_published(rows, k, "tenant", t)
    ELSE PickPublished(rows, k, "global", NoTenant)

\* _resolve_schema: the first row with page_key = entity, scope global and
\* status published; no condition on tenant_id, none on the caller's tenant.
resolve_schema(rows, entity) ==
    LET found == {i \in DOMAIN rows : /\ rows[i].page_key = entity
                                      /\ rows[i].scope = "global"
                                      /\ rows[i].status = "published"}
    IN IF found = {} THEN {0} ELSE found

\* SEED_PAGES, as far as PageKeys has them, and the schema seeded for them.
SEED_PAGES == {"products"}

PRODUCTS_PAGE_SCHEMA == VM([b |-> VS(2)])

\* _seed_page: scalar_one_or_none() raises when several rows match; one match
\* has its schema_json overwritten when it differs; no match inserts version 1
\* as PUBLISHED.
seed_page(rows, k, schema) ==
    LET existing == {i \in DOMAIN rows : /\ rows[i].page_key = k
                                         /\ rows[i].scope = "global"
                                         /\ rows[i].status = "published"}
    IN IF Cardinality(existing) > 1
       THEN Fail(rows, "multiple_results")
       ELSE IF existing # {}
       THEN LET i == CHOOSE j \in existing : TRUE
            IN IF rows[i].schema_json # schema
               THEN Ok([rows EXCEPT ![i].schema_json = schema], i)
               ELSE Ok(rows, i)
       ELSE Ok(Append(rows, PageVersion(k, "global", NoTenant, 0, 1, schema, "published")),
               Len(rows) + 1)

(***************************************************************************)
(* One request per step (adapters/http/routers/pages_router.py): the       *)
(* service call runs in its own unit of work, which is committed when the  *)
(* call returns and discarded when it raises ValueError.                   *)
(***************************************************************************)

RequestFor(op, vid, k, t, r) ==
    /\ versions' = IF r.err = "" THEN r.rows ELSE versions
    /\ uow' = r.rows
    /\ last' = [op |-> op, vid |-> vid, page_key |-> k, tenant_id |-> t, err |-> r.err, ret |-> r.ret]
    /\ UNCHANGED <<probe, icpt, mvars, tx, cvars>>

Request(op, vid, r) == RequestFor(op, vid, "", NoTenant, r)

\* get_db: every request runs in a session of its own, which sees the committed
\* rows; the outcome of the request before is no part of it.
BeginRequest ==
    /\ last # NoLast
    /\ last' = NoLast
    /\ uow' = versions
    /\ UNCHANGED <<probe, icpt, mvars, versions, tx, cvars>>

CreateDraft ==
    /\ last = NoLast
    /\ Len(versions) < MaxVersions
    /\ \E r \in UNION {UNION {create_draft(versions, k, st[1], doc, st[2]) : doc \in DraftDocs(st[1])} :
                          k \in DraftKeys, st \in DraftArgs} :
          Request("create_draft", 0, r)

Publish ==
    /\ last = NoLast
    /\ \E vid \in 0..Len(versions) :
          \E r \in publish(versions, vid) : Request("publish", vid, r)

Rollback ==
    /\ last = NoLast
    /\ \E vid \in 0..Len(versions) :
       \E r \in UNION {rollback(versions, k, vid, scope, t) :
                          k \in PageKeys, scope \in Scopes, t \in Tenants \cup {NoTenant}} :
          Request("rollback", vid, r)

MergeTenantOverride ==
    /\ last = NoLast
    /\ Len(versions) < MaxVersions
    /\ \E k \in PageKeys, t \in Tenants \cup {NoTenant} :
          \E r \in merge_page(versions, k, t) : RequestFor("merge", 0, k, t, r)

\* GET /pages/{page_key}: the version served to a caller of tenant t.
GetPage ==
    /\ last = NoLast
    /\ \E k \in PageKeys, t \in Tenants \cup {NoTenant} :
       \E id \in get_page(versions, k, t) :
          RequestFor("get_page", 0, k, t,
                     IF id = 0 THEN Fail(versions, "not_found") ELSE Ok(versions, id))

\* A generic CRUD request of tenant t on entity k resolves the schema first.
ResolveSchema ==
    /\ last = NoLast
    /\ \E k \in PageKeys, t \in Tenants :
       \E id \in resolve_schema(versions, k) :
          RequestFor("resolve_schema", 0, k, t,
                     IF id = 0 THEN Fail(versions, "not_found") ELSE Ok(versions, id))

\* start.py main: the application (re)starts and seeds the database.
SeedDatabase ==
    /\ last = NoLast
    /\ \E k \in SEED_PAGES :
          \E r \in {seed_page(versions, k, PRODUCTS_PAGE_SCHEMA)} :
             /\ Len(r.rows) <= MaxVersions
             /\ RequestFor("seed", 0, k, NoTenant, r)

Init ==
    /\ InitStore
    /\ IdleMerge
    /\ IdleIntercept
    /\ IdleProbe
    /\ IdleCrud

Next == BeginRequest \/ CreateDraft \/ Publish \/ Rollback \/ MergeTenantOverride \/ GetPage \/ ResolveSchema \/ SeedDatabase

Spec == Init /\ [][Next]_vars

\* The (entityKey, scope, tenantId) group of a row.
Group(row) == <<row.page_key, row.scope, row.tenant_id>>

\* The rows of `rows` that are PUBLISHED in the group of row i.
PublishedInGroup(rows, i) ==
    {j \in DOMAIN rows : Group(rows[j]) = Group(rows[i]) /\ rows[j].status = "published"}

\* C1: after any sequence of lifecycle calls, every group holds at most one
\* PUBLISHED version.
OnePublishedPerGroup ==
    \A i \in DOMAIN versions : Cardinality(PublishedInGroup(versions, i)) <= 1

\* Version vid of the store is ARCHIVED and the next version of its group is
\* the group's PUBLISHED one: vid was published, then its successor.
SupersededBy(rows, vid) ==
    {j \in DOMAIN rows : /\ Group(rows[j]) = Group(rows[vid])
                         /\ rows[j].version_number = rows[vid].version_number + 1
                         /\ rows[j].status = "published"}

\* C11: after version N and then version N+1 of a group were published, a
\* rollback to N leaves N PUBLISHED with its document, N+1 ARCHIVED, and the
\* same rows in the store, none created or deleted.
RollbackRestores ==
    [][(/\ last'.op = "rollback"
        /\ last'.err = ""
        /\ last'.vid \in DOMAIN versions
        /\ versions[last'.vid].status = "archived"
        /\ SupersededBy(versions, last'.vid) # {})
       => /\ Len(versions') = Len(versions)
          /\ versions'[last'.vid] = [versions[last'.vid] EXCEPT !.status = "published"]
          /\ \A j \in SupersededBy(versions, last'.vid) :
                versions'[j] = [versions[j] EXCEPT !.status = "archived"]
          /\ \A j \in DOMAIN versions \ (SupersededBy(versions, last'.vid) \cup {last'.vid}) :
                versions'[j] = versions[j]]_vars

\* The PUBLISHED GLOBAL versions of entity k.
GlobalPublished(rows, k) ==
    {i \in DOMAIN rows : /\ rows[i].page_key = k
                         /\ rows[i].scope = "global"
                         /\ rows[i].tenant_id = NoTenant
                         /\ rows[i].status = "published"}

\* The PUBLISHED TENANT versions of entity k that belong to tenant t.
TenantPublished(rows, k, t) ==
    {i \in DOMAIN rows : /\ rows[i].page_key = k
                         /\ rows[i].scope = "tenant"
                         /\ rows[i].tenant_id = t
                         /\ rows[i].status = "published"}

\* The highest versionNumber of group g, 0 when the group is empty.
GroupMax(rows, g) ==
    LET ns == {rows[i].version_number : i \in {j \in DOMAIN rows : Group(rows[j]) = g}}
    IN IF ns = {} THEN 0 ELSE CHOOSE n \in ns : \A m \in ns : m <= n

\* C12: mergeTenantOverride(entityKey, T), called when entityKey has a GLOBAL
\* PUBLISHED version and a TENANT PUBLISHED version for T, adds exactly one
\* version: scope TENANT, tenant T, DRAFT, versionNumber one above the tenant
\* group's highest, document deepMerge(global document, tenant document),
\* baseVersionId the global PUBLISHED version; every existing version, the two
\* PUBLISHED ones included, is left as it was.
MergeCreatesDraft ==
    [][(/\ last'.op = "merge"
        /\ GlobalPublished(versions, last'.page_key) # {}
        /\ TenantPublished(versions, last'.page_key, last'.tenant_id) # {})
       => /\ last'.err = ""
          /\ Len(versions') = Len(versions) + 1
          /\ last'.ret = Len(versions) + 1
          /\ \A i \in DOMAIN versions : versions'[i] = versions[i]
          /\ \E g \in GlobalPublished(versions, last'.page_key),
                tp \in TenantPublished(versions, last'.page_key, last'.tenant_id) :
                versions'[Len(versions) + 1] =
                   [page_key |-> last'.page_key,
                    scope |-> "tenant",
                    tenant_id |-> last'.tenant_id,
                    base_version_id |-> g,
                    version_number |->
                       GroupMax(versions, <<last'.page_key, "tenant", last'.tenant_id>>) + 1,
                    schema_json |-> MergeVal(versions[g].schema_json, versions[tp].schema_json),
                    status |-> "draft"]]_vars

\* A merge has run whose draft differs from every document stored before it.
MergeCreatesDraftWitness ==
    /\ last.op = "merge"
    /\ last.err = ""
    /\ last.ret = Len(versions)
    /\ versions[last.ret].base_version_id # 0
    /\ \A i \in DOMAIN versions \ {last.ret} :
          versions[i].schema_json # versions[last.ret].schema_json

\* The fallback order of resolvePublished: tenant t's PUBLISHED TENANT version
\* if there is one, else the GLOBAL PUBLISHED one, else none.
ResolvedAs(rows, k, t, ret) ==
    IF t # NoTenant /\ TenantPublished(rows, k, t) # {}
    THEN ret \in TenantPublished(rows, k, t)
    ELSE IF GlobalPublished(rows, k) # {}
    THEN ret \in GlobalPublished(rows, k)
    ELSE ret = 0

\* C13: resolvePublished(entityKey, tenantId) returns the tenant's PUBLISHED
\* TENANT version if one exists, else the GLOBAL PUBLISHED version, else
\* nothing; never a DRAFT or ARCHIVED version, never another tenant's.
ResolvePublished ==
    last.op = "get_page"
    => /\ ResolvedAs(versions, last.page_key, last.tenant_id, last.ret)
       /\ last.ret = 0 <=> last.err = "not_found"
       /\ last.ret # 0 =>
             /\ versions[last.ret].status = "published"
             /\ versions[last.ret].page_key = last.page_key
             /\ versions[last.ret].tenant_id \in {last.tenant_id, NoTenant}

\* A tenant with its own PUBLISHED version was served it, not the GLOBAL one.
ResolvePublishedWitness ==
    /\ last.op = "get_page"
    /\ last.tenant_id # NoTenant
    /\ GlobalPublished(versions, last.page_key) # {}
    /\ last.ret \in TenantPublished(versions, last.page_key, last.tenant_id)

\* C17: publish(versionId) fails whenever the target is not DRAFT, and the
\* failed call leaves the target's status, and every stored version, as it was.
PublishNeedsDraft ==
    [][(/\ last'.op = "publish"
        /\ last'.vid \in DOMAIN versions
        /\ versions[last'.vid].status # "draft")
       => /\ last'.err = "not_draft"
          /\ versions'[last'.vid].status = versions[last'.vid].status
          /\ versions' = versions]_vars

\* publish was refused on the PUBLISHED version itself: the unit of work had
\* archived it before the refusal and was discarded.
PublishNeedsDraftWitness ==
    /\ last.op = "publish"
    /\ last.err = "not_draft"
    /\ versions[last.vid].status = "published"
    /\ uow[last.vid].status = "archived"

\* C18: every draft that createDraft (and mergeTenantOverride) creates gets the
\* highest versionNumber of its (entityKey, scope, tenantId) group, 0 if the
\* group is empty, plus one, whatever the other groups hold; so within a group
\* the numbers strictly increase in creation order and are pairwise distinct.
VersionNumbersIncrease ==
    [][(last'.op \in {"create_draft", "merge"} /\ last'.err = "")
       => /\ Len(versions') = Len(versions) + 1
          /\ \A i \in DOMAIN versions : versions'[i] = versions[i]
          /\ versions'[Len(versions')].status = "draft"
          /\ versions'[Len(versions')].version_number =
                GroupMax(versions, Group(versions'[Len(versions')])) + 1
          /\ \A i \in DOMAIN versions :
                Group(versions[i]) = Group(versions'[Len(versions')])
                => versions[i].version_number < versions'[Len(versions')].version_number]_vars

\* A group received its second draft while another tenant's group of the same
\* entity and scope already held a version.
VersionNumbersIncreaseWitness ==
    \E i \in DOMAIN versions, j \in DOMAIN versions, o \in DOMAIN versions :
       /\ i < j
       /\ o < j
       /\ Group(versions[i]) = Group(versions[j])
       /\ versions[j].version_number = 2
       /\ versions[o].page_key = versions[j].page_key
       /\ versions[o].scope = versions[j].scope
       /\ versions[o].tenant_id # versions[j].tenant_id

\* C19: a stored version changes status only from DRAFT to PUBLISHED by publish
\* on it, from PUBLISHED to ARCHIVED when another version of its group is
\* published or rolled back to, and from ARCHIVED to PUBLISHED by rollback on
\* it; so never back to DRAFT, never from DRAFT to ARCHIVED, and never from
\* DRAFT to PUBLISHED by rollback.
StatusTransitions ==
    [][\A i \in DOMAIN versions :
          \/ versions'[i].status = versions[i].status
          \/ /\ versions[i].status = "draft"
             /\ versions'[i].status = "published"
             /\ last'.op = "publish"
             /\ last'.vid = i
          \/ /\ versions[i].status = "published"
             /\ versions'[i].status = "archived"
             /\ last'.op \in {"publish", "rollback"}
             /\ last'.vid \in DOMAIN versions \ {i}
             /\ Group(versions[last'.vid]) = Group(versions[i])
             /\ versions'[last'.vid].status = "published"
          \/ /\ versions[i].status = "archived"
             /\ versions'[i].status = "published"
             /\ last'.op = "rollback"
             /\ last'.vid = i]_vars

\* C20: the document of a version does not change while the version is
\* PUBLISHED, whatever lifecycle call or seeding run happens.
PublishedDocumentFixed ==
    [][\A i \in DOMAIN versions :
          versions[i].status = "published"
          => versions'[i].schema_json = versions[i].schema_json]_vars

\* C14: the schema resolution that feeds the generic record repository honours
\* the fallback order of resolvePublished: for a request of tenant t on entity
\* k it yields what resolvePublished(k, t) yields.
SchemaResolutionFallback ==
    last.op = "resolve_schema"
    => ResolvedAs(versions, last.page_key, last.tenant_id, last.ret)


\* The exception class a failure is raised as: the lifecycle raises ValueError
\* at every raise statement, update raises StaleDataError.
raised(err) ==
    IF err = "conflict" THEN "StaleDataError"
    ELSE IF err = "multiple_results" THEN "MultipleResultsFound"
    ELSE "ValueError"

\* The status the routers and the registered handlers answer an exception with.
http_status(exc) ==
    CASE exc = "ValueError" -> 400
      [] exc = "StaleDataError" -> 409
      [] OTHER -> 500

\* The failures of the lifecycle calls and of update, by their raise statement.
Failures ==
    {"tenant_required", "not_found", "not_draft", "wrong_page", "not_rollbackable",
     "no_global", "no_tenant", "conflict"}

\* The kind the error taxonomy gives a failure.
Taxonomy(err) ==
    CASE err = "tenant_required" -> "InvalidArgument"
      [] err = "not_found" -> "NotFound"
      [] err \in {"not_draft", "wrong_page", "not_rollbackable"} -> "InvariantViolation"
      [] err \in {"no_global", "no_tenant"} -> "PrerequisiteMissing"
      [] err = "conflict" -> "Conflict"

\* C24: a failure of createDraft, publish, rollback or merge is reported with
\* a kind that tells it apart from every failure of another kind of the
\* taxonomy (InvalidArgument, NotFound, InvariantViolation,
\* PrerequisiteMissing, Conflict): neither the exception class nor the status
\* answered is shared with a failure of another kind.
FailureKindsDistinct ==
    (last.op \in {"create_draft", "publish", "rollback", "merge"} /\ last.err \in Failures)
    => \A e \in Failures :
          Taxonomy(e) # Taxonomy(last.err)
          => /\ raised(e) # raised(last.err)
             /\ http_status(raised(e)) # http_status(raised(last.err))

\* C26: rollback changes the status only of versions in the target's own
\* group, whatever scope and tenantId it is called with: the version it
\* archives belongs to the group of the target.
RollbackFrame ==
    [][last'.op = "rollback"
       => \A i \in DOMAIN versions :
             versions'[i].status # versions[i].status
             => Group(versions[i]) = Group(versions[last'.vid])]_vars

\* C28: when publish raises, no version's status has been changed in the unit
\* of work: the rows of the session at the raise have the statuses of the
\* store, the group's PUBLISHED version included.
PublishFailureChangesNothing ==
    (last.op = "publish" /\ last.err # "")
    => /\ Len(uow) = Len(versions)
       /\ \A i \in DOMAIN versions : uow[i].status = versions[i].status

(***************************************************************************)
(* Two publish requests in concurrent units of work.  Each request has its *)
(* own session (dependency_injection.get_db) on an engine created with the *)
(* database's default isolation (dependency_injection.py:30): a statement  *)
(* reads the committed rows, an UPDATE of a row waits for the transaction  *)
(* that wrote it, and the writes reach the store at db.commit().           *)
(***************************************************************************)

\* Rows 1..3 are the versions 1..3 of the global "products" group, as earlier
\* requests left them.
PublishStores ==
    { [i \in 1..3 |-> PageVersion("products", "global", NoTenant, 0, i,
                                   VM([a |-> VS(1), b |-> VS(1)]), st[i])]
      : st \in { <<"draft", "draft", "draft">>,
                 <<"published", "draft", "draft">>,
                 <<"archived", "published", "draft">> } }

InitPublish ==
    /\ versions \in PublishStores
    /\ uow = <<>>
    /\ last = NoLast
    /\ tx = [p \in Procs |-> IdleTx]
    /\ IdleMerge
    /\ IdleIntercept
    /\ IdleProbe
    /\ IdleCrud

\* Row i carries an uncommitted write of a request other than p.
LockedByOther(p, i) ==
    \E q \in Procs \ {p} :
       /\ tx[q].pc \in {"archived", "published"}
       /\ i \in {tx[q].wArchive, tx[q].wPublish}

\* publish: version = self._repo.get_by_id(version_id)
TxGetById(p) ==
    /\ tx[p].pc = "start"
    /\ \E vid \in DOMAIN versions :
          tx' = [tx EXCEPT ![p].pc = "got", ![p].vid = vid, ![p].status = versions[vid].status]
    /\ UNCHANGED <<probe, icpt, mvars, lvars, cvars>>

\* publish: current_pub = self._repo.get_published(page_key, scope, tenant_id)
TxGetPublished(p) ==
    /\ tx[p].pc = "got"
    /\ \E cur \in PickPublished(versions, versions[tx[p].vid].page_key,
                                versions[tx[p].vid].scope, versions[tx[p].vid].tenant_id) :
          tx' = [tx EXCEPT ![p].pc = "read", ![p].cur = cur]
    /\ UNCHANGED <<probe, icpt, mvars, lvars, cvars>>

\* publish: current_pub.archive(); self._repo.update(current_pub)
TxArchive(p) ==
    /\ tx[p].pc = "read"
    /\ tx[p].cur # 0
    /\ ~LockedByOther(p, tx[p].cur)
    /\ tx' = [tx EXCEPT ![p].pc = "archived", ![p].wArchive = tx[p].cur]
    /\ UNCHANGED <<probe, icpt, mvars, lvars, cvars>>

\* publish: version.publish() raises for a version that was not read as a draft;
\* the router answers 400 and the unit of work is discarded.
TxPublishRaise(p) ==
    /\ \/ tx[p].pc = "archived"
       \/ tx[p].pc = "read" /\ tx[p].cur = 0
    /\ tx[p].status # "draft"
    /\ tx' = [tx EXCEPT ![p].pc = "failed", ![p].wArchive = 0]
    /\ UNCHANGED <<probe, icpt, mvars, lvars, cvars>>

\* publish: version.publish(); self._repo.update(version)
TxPublish(p) ==
    /\ \/ tx[p].pc = "archived"
       \/ tx[p].pc = "read" /\ tx[p].cur = 0
    /\ tx[p].status = "draft"
    /\ ~LockedByOther(p, tx[p].vid)
    /\ tx' = [tx EXCEPT ![p].pc = "published", ![p].wPublish = tx[p].vid]
    /\ UNCHANGED <<probe, icpt, mvars, lvars, cvars>>

\* pages_router.publish_page: db.commit()
TxCommit(p) ==
    /\ tx[p].pc = "published"
    /\ versions' = [i \in DOMAIN versions |->
                      IF i = tx[p].wPublish THEN [versions[i] EXCEPT !.status = "published"]
                      ELSE IF i = tx[p].wArchive THEN [versions[i] EXCEPT !.status = "archived"]
                      ELSE versions[i]]
    /\ tx' = [tx EXCEPT ![p].pc = "done"]
    /\ UNCHANGED <<probe, icpt, mvars, uow, last, cvars>>

NextPublish ==
    \E p \in Procs :
       \/ TxGetById(p)
       \/ TxGetPublished(p)
       \/ TxArchive(p)
       \/ TxPublishRaise(p)
       \/ TxPublish(p)
       \/ TxCommit(p)

SpecPublish == InitPublish /\ [][NextPublish]_vars

\* C2: under every interleaving of two concurrent publish requests the
\* committed store never holds two PUBLISHED versions of one group.
ConcurrentPublishOnePublished ==
    \A i, j \in DOMAIN versions :
       (/\ Group(versions[i]) = Group(versions[j])
        /\ versions[i].status = "published"
        /\ versions[j].status = "published") => i = j


(***************************************************************************)
(* Two createDraft requests in concurrent units of work, each in its own   *)
(* session: get_latest_version_number reads the committed rows, save       *)
(* flushes the INSERT, which the database checks against uq_page_version   *)
(* (page_key, scope, tenant_id, version_number), and db.commit() makes the  *)
(* row visible.  An INSERT whose key another open transaction has inserted *)
(* waits for that transaction; rows whose tenant_id is NULL never violate  *)
(* the constraint, NULLs being distinct in a unique constraint.            *)
(***************************************************************************)

\* A createDraft request that has not started.
IdleDraft == [pc |-> "start", page_key |-> "", scope |-> "", tenant_id |-> NoTenant, num |-> 0]

\* The groups the requests create drafts in.
DraftGroups == {<<"products", "global", NoTenant>>, <<"products", "tenant", "t1">>}

\* The document of the drafts.
DraftDoc == VM([a |-> VS(1)])

\* The stores the requests start on: empty, or with a first version of a group.
DraftStores ==
    {<< >>} \cup {<<PageVersion(g[1], g[2], g[3], 0, 1, DraftDoc, "draft")>> : g \in DraftGroups}

\* Rows a and b have the same key under uq_page_version.
uq_page_version(a, b) ==
    /\ a.page_key = b.page_key
    /\ a.scope = b.scope
    /\ a.tenant_id # NoTenant
    /\ a.tenant_id = b.tenant_id
    /\ a.version_number = b.version_number

\* The row request p inserts.
DraftRow(p) ==
    PageVersion(tx[p].page_key, tx[p].scope, tx[p].tenant_id, 0, tx[p].num, DraftDoc, "draft")

InitDraft ==
    /\ versions \in DraftStores
    /\ uow = <<>>
    /\ last = NoLast
    /\ tx = [p \in Procs |-> IdleDraft]
    /\ IdleMerge
    /\ IdleIntercept
    /\ IdleProbe
    /\ IdleCrud

\* create_draft: latest_num = self._repo.get_latest_version_number(...)
DraftReadLatest(p) ==
    /\ tx[p].pc = "start"
    /\ \E g \in DraftGroups :
          tx' = [tx EXCEPT ![p] = [pc |-> "numbered", page_key |-> g[1], scope |-> g[2],
                                   tenant_id |-> g[3],
                                   num |-> get_latest_version_number(versions, g[1], g[2], g[3]) + 1]]
    /\ UNCHANGED <<probe, icpt, mvars, lvars, cvars>>

\* create_draft: self._repo.save(draft), the INSERT passes the constraint.
DraftSave(p) ==
    /\ tx[p].pc = "numbered"
    /\ \A q \in Procs \ {p} : tx[q].pc = "saved" => ~uq_page_version(DraftRow(p), DraftRow(q))
    /\ \A i \in DOMAIN versions : ~uq_page_version(DraftRow(p), versions[i])
    /\ tx' = [tx EXCEPT ![p].pc = "saved"]
    /\ UNCHANGED <<probe, icpt, mvars, lvars, cvars>>

\* create_draft: self._repo.save(draft), the INSERT violates the constraint:
\* IntegrityError, the unit of work is discarded.
DraftSaveRaise(p) ==
    /\ tx[p].pc = "numbered"
    /\ \E i \in DOMAIN versions : uq_page_version(DraftRow(p), versions[i])
    /\ tx' = [tx EXCEPT ![p].pc = "failed"]
    /\ UNCHANGED <<probe, icpt, mvars, lvars, cvars>>

\* pages_router.create_draft: db.commit()
DraftCommit(p) ==
    /\ tx[p].pc = "saved"
    /\ versions' = Append(versions, DraftRow(p))
    /\ tx' = [tx EXCEPT ![p].pc = "done"]
    /\ UNCHANGED <<probe, icpt, mvars, uow, last, cvars>>

NextDraft ==
    \E p \in Procs :
       \/ DraftReadLatest(p)
       \/ DraftSave(p)
       \/ DraftSaveRaise(p)
       \/ DraftCommit(p)

SpecDraft == InitDraft /\ [][NextDraft]_vars

\* C29: when two createDraft calls on the same group run in concurrent units
\* of work, the committed store never holds two versions of a group with the
\* same versionNumber, for TENANT groups and for GLOBAL groups alike.
ConcurrentDraftNumbersUnique ==
    \A i, j \in DOMAIN versions :
       (i # j /\ Group(versions[i]) = Group(versions[j]))
       => versions[i].version_number # versions[j].version_number

(***************************************************************************)
(* The generic record repository under the tenant interceptor.  A table is *)
(* a set of rows; of a row the id, the tenant, the version counter and one *)
(* required data column are kept (the column is called name here: it is    *)
(* products.name, chat_sessions.user_id, users.username).  Every request   *)
(* is one unit of work: a session with a tenant marker, the repository     *)
(* call, and the router's commit when the call succeeded.                  *)
(***************************************************************************)

MaxVersion == 2

\* The ids a table can hold; uuid4 draws a fresh one.
Ids == {1, 2}

\* Tables of the metadata registry the requests address.
Tables == {"products", "chat_sessions", "users"}

\* The tables that have a tenant_id column.
TenantIdTables == {"products", "chat_sessions", "users", "page_versions"}

TENANT_EXEMPT_TABLES == {"tenants", "users", "page_versions"}

get_filterable_tables == TenantIdTables \ TENANT_EXEMPT_TABLES

\* _has_version: "version" in table.c
has_version(tb) == tb = "products"

\* The value of the version field of a row whose table has no such column.
NoVersion == 0

\* expected_version = None
NoExpected == 0

\* The columns of a table that a statement of the repository can name.
Columns(tb) ==
    CASE tb = "products" -> {"id", "tenant_id", "name", "version", "created_at", "updated_at"}
      [] tb = "chat_sessions" -> {"id", "tenant_id", "name", "created_at", "updated_at"}
      [] OTHER -> {"id", "tenant_id", "name", "created_at"}

\* The data mappings a caller passes to create and update.
Data ==
    { << >>,
      [name |-> 1],
      [name |-> 1, tenant_id |-> "t2"],
      [name |-> 1, id |-> 2],
      [name |-> 1, version |-> MaxVersion],
      [name |-> 1, version |-> 1] }

Row(id, t, ver, name) == [id |-> id, tenant_id |-> t, version |-> ver, name |-> name]

\* A WHERE clause: for each column the values it is compared to for equality.
Where(ids, ts, vs) == [id |-> ids, tenant_id |-> ts, version |-> vs]

\* An element of statement.froms: a Table has a name; a Join (or an alias, a
\* subquery) has none that names a table, whatever tables it reads.
FromTable(tb) == [name |-> tb, tables |-> {tb}]

FromJoin(tbs) == [name |-> "", tables |-> tbs]

\* A statement as the session hands it to the event: a SELECT has froms and no
\* table attribute, an INSERT, UPDATE or DELETE has its table; the tenant_id
\* comparisons of the WHERE clause are kept per table.
Stmt(kind, tb, w) ==
    [is_insert |-> kind = "insert",
     froms |-> IF kind = "select" THEN {FromTable(tb)} ELSE {},
     table |-> IF kind = "select" THEN "" ELSE tb,
     where |-> [w EXCEPT !.tenant_id = {<<tb, v>> : v \in @}]]

\* _extract_table_names: the names of the froms that have one, and of the table.
extract_table_names(stmt) ==
    {f.name : f \in {g \in stmt.froms : g.name # ""}}
       \cup (IF stmt.table # "" THEN {stmt.table} ELSE {})

Matches(r, w) ==
    /\ \A v \in w.id : r.id = v
    /\ \A p \in w.tenant_id : r.tenant_id = p[2]
    /\ \A v \in w.version : r.version = v

\* A session that leaves every statement as the repository wrote it.
on_do_orm_execute_unfiltered(marker, stmt) == stmt

\* A listener that ignores the exemption set: it filters every named table
\* that has a tenant_id column.
on_do_orm_execute_no_exemption(marker, stmt) ==
    IF marker = NoTenant THEN stmt
    ELSE IF stmt.is_insert THEN stmt
    ELSE IF extract_table_names(stmt) \cap TenantIdTables = {} THEN stmt
    ELSE [stmt EXCEPT !.where.tenant_id =
             @ \cup {<<tb, marker>> : tb \in extract_table_names(stmt) \cap TenantIdTables}]

\* _on_do_orm_execute: the statement the session executes.
on_do_orm_execute(marker, stmt) ==
    IF marker = NoTenant THEN stmt
    ELSE IF stmt.is_insert THEN stmt
    ELSE IF extract_table_names(stmt) = {} THEN stmt
    ELSE IF extract_table_names(stmt) \cap get_filterable_tables = {} THEN stmt
    ELSE [stmt EXCEPT !.where.tenant_id =
             @ \cup {<<tb, marker>> : tb \in extract_table_names(stmt) \cap get_filterable_tables}]

\* The rows of s a statement selects, updates or deletes in a session with the marker.
Execute(s, marker, stmt) == {r \in s : Matches(r, on_do_orm_execute(marker, stmt).where)}

Result(s, out, ret) == [rows |-> s, out |-> out, ret |-> ret, total |-> 0, exc |-> <<0, 0>>]

\* GenericCrudRepository.list with the default offset, limit, filters and sort
list(s, m, tb, t) ==
    LET total == Execute(s, m, Stmt("select", tb, Where({}, {t}, {})))
        items == Execute(s, m, Stmt("select", tb, Where({}, {t}, {})))
    IN  [Result(s, "ok", items) EXCEPT !.total = Cardinality(total)]

get_by_id(s, m, tb, t, id) ==
    LET sel == Execute(s, m, Stmt("select", tb, Where({id}, {t}, {})))
    IN  IF sel = {} THEN Result(s, "absent", {}) ELSE Result(s, "ok", sel)

\* create: uid is the value uuid4 returns
create(s, m, tb, t, data, uid) ==
    LET keys == {"id", "tenant_id", "created_at", "updated_at"} \cup DOMAIN data
        row == Row(IF "id" \in DOMAIN data THEN data.id ELSE uid,
                   IF "tenant_id" \in DOMAIN data THEN data.tenant_id ELSE t,
                   IF "version" \in DOMAIN data THEN data.version
                   ELSE IF has_version(tb) THEN 1 ELSE NoVersion,
                   IF "name" \in DOMAIN data THEN data.name ELSE 0)
    IN  IF ~(keys \subseteq Columns(tb)) THEN Result(s, "compile_error", {})
        ELSE IF "name" \notin DOMAIN data THEN Result(s, "integrity_error", {})
        ELSE IF \E r \in s : r.id = row.id THEN Result(s, "integrity_error", {})
        ELSE Result(s \cup {row}, "ok", {row})

\* An UPDATE that lets a version value of data stand.
Updated_data_version(r, tb, data, ev) ==
    Row(IF "id" \in DOMAIN data THEN data.id ELSE r.id,
        IF "tenant_id" \in DOMAIN data THEN data.tenant_id ELSE r.tenant_id,
        IF ~has_version(tb) THEN r.version
        ELSE IF "version" \in DOMAIN data THEN data.version
        ELSE IF ev # NoExpected THEN ev + 1 ELSE r.version + 1,
        IF "name" \in DOMAIN data THEN data.name ELSE r.name)

\* The row an UPDATE statement of update() writes in place of r.
Updated(r, tb, data, ev) ==
    Row(IF "id" \in DOMAIN data THEN data.id ELSE r.id,
        IF "tenant_id" \in DOMAIN data THEN data.tenant_id ELSE r.tenant_id,
        IF ~has_version(tb) THEN r.version
        ELSE IF ev # NoExpected THEN ev + 1 ELSE r.version + 1,
        IF "name" \in DOMAIN data THEN data.name ELSE r.name)

\* stmt of update(): WHERE id, tenant_id and, with an expected version, version
UpdateStmt(tb, t, id, ev) ==
    Stmt("update", tb, Where({id}, {t}, IF has_version(tb) /\ ev # NoExpected THEN {ev} ELSE {}))

\* The column names update() hands to stmt.values() are columns of the table.
UpdateCompiles(tb, data) ==
    (DOMAIN data \cup {"updated_at"} \cup (IF has_version(tb) THEN {"version"} ELSE {}))
        \subseteq Columns(tb)

\* update whose existence check looks for the id alone, outside the session.
update_exists_by_id(s, m, tb, t, id, data, ev) ==
    LET hit == Execute(s, m, UpdateStmt(tb, t, id, ev))
        s2 == (s \ hit) \cup {Updated(r, tb, data, ev) : r \in hit}
        exists == {r \in s : r.id = id}
        row == Execute(s2, m, Stmt("select", tb, Where({id}, {t}, {})))
    IN  IF ~UpdateCompiles(tb, data) THEN Result(s, "compile_error", {})
        ELSE IF hit = {}
        THEN IF has_version(tb) /\ ev # NoExpected /\ exists # {}
             THEN [Result(s, "conflict", {}) EXCEPT !.exc = <<id, ev>>]
             ELSE Result(s, "absent", {})
        ELSE IF \E r \in hit, o \in s \ hit : Updated(r, tb, data, ev).id = o.id
        THEN Result(s, "integrity_error", {})
        ELSE IF row = {} THEN Result(s2, "absent", {})
        ELSE Result(s2, "ok", row)

\* GenericCrudRepository.update
update(s, m, tb, t, id, data, ev) ==
    LET hit == Execute(s, m, UpdateStmt(tb, t, id, ev))
        s2 == (s \ hit) \cup {Updated(r, tb, data, ev) : r \in hit}
        exists == Execute(s, m, Stmt("select", tb, Where({id}, {t}, {})))
        row == Execute(s2, m, Stmt("select", tb, Where({id}, {t}, {})))
    IN  IF ~UpdateCompiles(tb, data) THEN Result(s, "compile_error", {})
        ELSE IF hit = {}
        THEN IF has_version(tb) /\ ev # NoExpected /\ exists # {}
             THEN [Result(s, "conflict", {}) EXCEPT !.exc = <<id, ev>>]
             ELSE Result(s, "absent", {})
        ELSE IF \E r \in hit, o \in s \ hit : Updated(r, tb, data, ev).id = o.id
        THEN Result(s, "integrity_error", {})
        ELSE IF row = {} THEN Result(s2, "absent", {})
        ELSE Result(s2, "ok", row)

delete(s, m, tb, t, id) ==
    LET hit == Execute(s, m, Stmt("delete", tb, Where({id}, {t}, {})))
    IN  IF hit = {} THEN Result(s, "absent", {}) ELSE Result(s \ hit, "ok", {})

\* The tenant markers a session can carry.
Markers == Tenants \cup {NoTenant}

\* get_tenant_db / get_db: a request opens its session, with the tenant of the
\* authenticated caller as marker or with none.
BeginUnitOfWork ==
    /\ call.op # "begin"
    /\ \E m \in Markers : call' = [NoCall EXCEPT !.op = "begin", !.marker = m]
    /\ work' = store
    /\ UNCHANGED <<probe, icpt, mvars, lvars, tx, table, store, upd>>

\* The rest of a request: the repository call r in the open session, the
\* router's commit when the call returned a result, and the close of the
\* session, which drops what a 404 or an exception left uncommitted.
CrudRequest(op, t, id, data, ev, r) ==
    /\ \A x \in r.rows : x.version <= MaxVersion
    /\ store' = IF r.out = "ok" THEN r.rows ELSE store
    /\ work' = r.rows
    /\ call' = [op |-> op, marker |-> call.marker, tenant_id |-> t, id |-> id, data |-> data,
                ev |-> ev, out |-> r.out, ret |-> r.ret, total |-> r.total, exc |-> r.exc]
    /\ UNCHANGED <<probe, icpt, mvars, lvars, tx, table, upd>>

ListEntities ==
    /\ call.op = "begin"
    /\ \E t \in Tenants :
          \E r \in {list(store, call.marker, table, t)} :
             CrudRequest("list", t, 0, << >>, NoExpected, r)

GetEntity ==
    /\ call.op = "begin"
    /\ \E t \in Tenants, id \in Ids :
          \E r \in {get_by_id(store, call.marker, table, t, id)} :
             CrudRequest("get_by_id", t, id, << >>, NoExpected, r)

CreateEntity ==
    /\ call.op = "begin"
    /\ \E t \in Tenants, data \in Data :
          \E r \in {create(store, call.marker, table, t, data, uid) :
                       uid \in Ids \ {x.id : x \in store}} :
             CrudRequest("create", t, 0, data, NoExpected, r)

UpdateEntity ==
    /\ call.op = "begin"
    /\ \E t \in Tenants, id \in Ids, data \in Data, ev \in {NoExpected} \cup 1..MaxVersion :
          \E r \in {update(store, call.marker, table, t, id, data, ev)} :
             CrudRequest("update", t, id, data, ev, r)

DeleteEntity ==
    /\ call.op = "begin"
    /\ \E t \in Tenants, id \in Ids :
          \E r \in {delete(store, call.marker, table, t, id)} :
             CrudRequest("delete", t, id, << >>, NoExpected, r)

\* The rows a seed script leaves in a table: one row of each tenant.
SeedRows(tb) ==
    {Row(1, "t1", IF has_version(tb) THEN 1 ELSE NoVersion, 0),
     Row(2, "t2", IF has_version(tb) THEN 1 ELSE NoVersion, 0)}

InitCrud ==
    /\ InitStore
    /\ IdleMerge
    /\ IdleIntercept
    /\ IdleProbe
    /\ table \in Tables
    /\ store \in {{}, SeedRows(table)}
    /\ work = {}
    /\ call = NoCall
    /\ upd = [p \in Procs |-> IdleUpd]

NextCrud == BeginUnitOfWork \/ ListEntities \/ GetEntity \/ CreateEntity \/ UpdateEntity \/ DeleteEntity

SpecCrud == InitCrud /\ [][NextCrud]_vars

\* The table of this behaviour is tenant-scoped: the interceptor filters it.
TenantScoped == table \in get_filterable_tables

\* list and getById returned only rows of the session's tenant.
IsolatedReads ==
    (TenantScoped /\ call.marker # NoTenant /\ call.op \in {"list", "get_by_id"})
        => \A r \in call.ret : r.tenant_id = call.marker

\* update and delete left every row of another tenant as it was.
IsolatedWrites ==
    (TenantScoped /\ call'.marker # NoTenant /\ call'.op \in {"update", "delete"})
        => \A r \in store : r.tenant_id # call'.marker => (r \in store' /\ r \in work')

\* C3: in a unit of work with tenant marker A, on a tenant-scoped table, list
\* and getById return no row of another tenant and update and delete leave
\* every row of another tenant unchanged, whatever tenantId and id are passed.
TenantIsolation == []IsolatedReads /\ [][IsolatedWrites]_vars

\* A session of t1 updated with the tenantId, the id and the version of a row
\* of t2, and the row is still there.
TenantIsolationWitness ==
    /\ TenantScoped
    /\ call.op = "update"
    /\ call.marker = "t1"
    /\ call.tenant_id = "t2"
    /\ call.out = "absent"
    /\ \E r \in store : r.id = call.id /\ r.tenant_id = "t2" /\ r.version = call.ev

\* The rows of the store that update(table, tenantId, id, ...) of the call
\* addresses and its session can see.
Addressed(c) ==
    {r \in store : /\ r.id = c.id
                   /\ r.tenant_id = c.tenant_id
                   /\ (TenantScoped /\ c.marker # NoTenant) => r.tenant_id = c.marker}

\* C4: on a table with a version column, update with expectedVersion v
\* succeeds and stores version v+1 when the row is there with version v, fails
\* with Conflict carrying the id and v when the row is there with another
\* version, and returns absent, never Conflict, when the row is not there.
UpdateOutcomes ==
    [][(call'.op = "update" /\ has_version(table) /\ call'.ev # NoExpected) =>
          LET cur == Addressed(call')
          IN  /\ (\E r \in cur : r.version = call'.ev) =>
                    /\ call'.out = "ok"
                    /\ \E r \in store' : /\ r.id = call'.id
                                         /\ r.version = call'.ev + 1
                                         /\ call'.ret = {r}
              /\ (cur # {} /\ \A r \in cur : r.version # call'.ev) =>
                    /\ call'.out = "conflict"
                    /\ call'.exc = <<call'.id, call'.ev>>
                    /\ store' = store
              /\ cur = {} => (call'.out = "absent" /\ store' = store)]_vars

\* C27: after create(table, A, data) and after a successful update(table, A,
\* id, data) the row stored and returned has tenantId A, whatever data holds:
\* no create or update for tenant A puts a row into another tenant.
WritesKeepTenant ==
    [][(call'.op \in {"create", "update"} /\ call'.out = "ok")
       => \A r \in (store' \ store) \cup call'.ret : r.tenant_id = call'.tenant_id]_vars

\* C30: in a unit of work with marker A, update with an expectedVersion on
\* the id of a row of another tenant returns absent, never Conflict, whatever
\* that row's version is, and ends as it would if the row were not there.
CrossTenantUpdateAbsent ==
    [][(/\ call'.op = "update"
        /\ TenantScoped
        /\ call'.marker # NoTenant
        /\ call'.ev # NoExpected
        /\ \E r \in store : r.id = call'.id /\ r.tenant_id # call'.marker)
       => /\ call'.out # "conflict"
          /\ has_version(table) => call'.out = "absent"
          /\ store' = store
          /\ call'.out = update(store \ {r \in store : r.id = call'.id}, call'.marker, table,
                                call'.tenant_id, call'.id, call'.data, call'.ev).out]_vars

\* A session of t1 updated, as t1, the id of a row of t2 with an expected
\* version the row does not have, and was answered absent.
CrossTenantUpdateAbsentWitness ==
    /\ TenantScoped
    /\ has_version(table)
    /\ call.op = "update"
    /\ call.marker = "t1"
    /\ call.tenant_id = "t1"
    /\ call.ev # NoExpected
    /\ call.out = "absent"
    /\ \E r \in store : r.id = call.id /\ r.tenant_id = "t2" /\ r.version # call.ev

\* C25: on a table with a version column every successful update raises the
\* row's version by exactly 1, with or without an expectedVersion and also
\* when data carries a version; no step lowers the version of a stored row.
VersionCounts ==
    /\ [][(call'.op = "update" /\ call'.out = "ok" /\ has_version(table))
          => /\ \E r \in store : r.id = call'.id
             /\ \A r \in store : r.id = call'.id
                   => /\ \E u \in store' : u.id = r.id /\ u.version = r.version + 1
                      /\ \A u \in call'.ret : u.version = r.version + 1]_vars
    /\ [][has_version(table)
          => \A r \in store, u \in store' : u.id = r.id => u.version >= r.version]_vars

\* An update without expectedVersion, whose data carries a version other than
\* the next one, succeeded.
VersionCountsWitness ==
    /\ has_version(table)
    /\ call.op = "update"
    /\ call.out = "ok"
    /\ call.ev = NoExpected
    /\ "version" \in DOMAIN call.data
    /\ \A u \in call.ret : u.version # call.data.version

\* The call is made within one tenant: the session's marker, if any, is the
\* tenantId passed.
SameTenantCall(c) == ~TenantScoped \/ c.marker \in {NoTenant, c.tenant_id}

\* The stored rows with the id and the tenantId of the call.
Owned(rs, c) == {r \in rs : r.id = c.id /\ r.tenant_id = c.tenant_id}

\* getById and list return what the store holds for the tenant.
ReadsFollowStore ==
    /\ (call.op = "get_by_id" /\ SameTenantCall(call))
          => /\ call.ret = Owned(store, call)
             /\ call.out = "absent" <=> Owned(store, call) = {}
    /\ (call.op = "list" /\ SameTenantCall(call))
          => /\ call.ret = {r \in store : r.tenant_id = call.tenant_id}
             /\ call.total = Cardinality({r \in store : r.tenant_id = call.tenant_id})

\* A created record is stored for its tenant, stays until a delete of it, and
\* delete succeeds exactly on a row the tenant has, which is gone after it.
RecordsLive ==
    /\ (call'.op = "create" /\ call'.out = "ok" /\ SameTenantCall(call'))
          => \A r \in call'.ret :
                r \in {x \in store' : x.id = r.id /\ x.tenant_id = call'.tenant_id}
    /\ \A r \in store :
          \/ \E u \in store' : u.id = r.id /\ u.tenant_id = r.tenant_id
          \/ call'.op = "delete" /\ call'.out = "ok" /\ r \in Owned(store, call')
    /\ (call'.op = "delete" /\ SameTenantCall(call'))
          => /\ call'.out = "ok" <=> Owned(store, call') # {}
             /\ call'.out = "absent" <=> Owned(store, call') = {}
             /\ Owned(store', call') = {}
             /\ \A r \in store \ Owned(store, call') : r \in store'

\* C22: within one tenant a record returned by create is returned by getById
\* and counted and listed by list in every later state until it is deleted;
\* delete returns true exactly when the tenant has the row, and after it
\* getById returns absent and a second delete returns false.
CrudLifecycle == []ReadsFollowStore /\ [][RecordsLive]_vars

(***************************************************************************)
(* The session event on its own (tenant_context.py): a session with or     *)
(* without a marker hands one statement after the other to the listener    *)
(* registered for do_orm_execute, which replaces the statement or leaves   *)
(* it; the statements range over the tables of the metadata, alone, listed *)
(* side by side, or joined.                                                *)
(***************************************************************************)

InterceptTables == Tables \cup TENANT_EXEMPT_TABLES

SelectFrom(fs) == [is_insert |-> FALSE, froms |-> fs, table |-> "", where |-> Where({}, {}, {})]

Statements ==
    {Stmt(kind, tb, Where({}, ts, {})) :
        kind \in {"select", "insert", "update", "delete"}, tb \in InterceptTables, ts \in {{}, {"t2"}}}
    \cup {SelectFrom({FromTable(a), FromTable(b)}) : a \in InterceptTables, b \in InterceptTables}
    \cup {SelectFrom({FromJoin(ab)}) : ab \in {tbs \in SUBSET InterceptTables : Cardinality(tbs) = 2}}

\* The tables a statement reads or writes.
Targets(stmt) ==
    UNION {f.tables : f \in stmt.froms} \cup (IF stmt.table # "" THEN {stmt.table} ELSE {})

InitIntercept ==
    /\ InitStore
    /\ IdleMerge
    /\ IdleProbe
    /\ table = "products"
    /\ store = SeedRows(table)
    /\ work \in {store, {}}
    /\ call = NoCall
    /\ upd = [p \in Procs |-> IdleUpd]
    /\ \E m \in Markers, st \in Statements :
          icpt = [pc |-> "issued", marker |-> m, statement |-> st, sent |-> st]

\* session.execute(statement): the event runs before the statement is sent.
DoOrmExecute ==
    /\ icpt.pc = "issued"
    /\ icpt' = [icpt EXCEPT !.pc = "rewritten",
                            !.sent = on_do_orm_execute(icpt.marker, icpt.statement)]
    /\ UNCHANGED <<probe, mvars, lvars, tx, cvars>>

\* The session is handed its next statement.
IssueStatement ==
    /\ icpt.pc = "rewritten"
    /\ \E st \in Statements :
          icpt' = [icpt EXCEPT !.pc = "issued", !.statement = st, !.sent = st]
    /\ UNCHANGED <<probe, mvars, lvars, tx, cvars>>

NextIntercept == DoOrmExecute \/ IssueStatement

SpecIntercept == InitIntercept /\ [][NextIntercept]_vars

\* C15: with marker A on the unit of work, every SELECT, UPDATE and DELETE
\* that targets a table with a tenant_id column outside the exemption set is
\* executed with the predicate tenant_id = A, added for each such table the
\* statement names.
InterceptFiltersTargets ==
    (icpt.pc = "rewritten" /\ icpt.marker # NoTenant /\ ~icpt.statement.is_insert)
    => \A tb \in Targets(icpt.statement) \cap get_filterable_tables :
          <<tb, icpt.marker>> \in icpt.sent.where.tenant_id

\* C16: the interceptor leaves the statement as it was issued when the unit of
\* work has no marker, when the statement is an INSERT, and when every table
\* it targets is exempt or has no tenant_id column; it never commits or rolls
\* back: the committed rows and the pending ones stay as they were.
InterceptFrame ==
    /\ [](icpt.pc = "rewritten"
          => ((\/ icpt.marker = NoTenant
               \/ icpt.statement.is_insert
               \/ Targets(icpt.statement) \cap get_filterable_tables = {})
              => icpt.sent = icpt.statement))
    /\ [][icpt'.pc = "rewritten" => (store' = store /\ work' = work)]_vars

\* An INSERT into a filterable table went through a session with a marker, with
\* uncommitted changes pending.
InterceptFrameWitness ==
    /\ icpt.pc = "rewritten"
    /\ icpt.marker # NoTenant
    /\ icpt.statement.is_insert
    /\ icpt.statement.table \in get_filterable_tables
    /\ work # store

(***************************************************************************)
(* create and list with all their arguments and all they return             *)
(* (generic_crud_repository.py): the instant of the call and the whole     *)
(* row_data mapping of create; offset, limit and filters of list.  The     *)
(* order of list (created_at descending by default) is left open: every    *)
(* page the rows can form under some order is a possible answer.           *)
(***************************************************************************)

MaxTime == 2

MaxLimit == 2

\* The mappings create is called with: those of Data and one with a created_at.
CreateData == Data \cup {[name |-> 1, created_at |-> 0]}

\* create: row_data, with now the value of datetime.now and uid that of uuid4.
row_data(tb, t, data, uid, now) ==
    LET base == [id |-> uid, tenant_id |-> t, created_at |-> now, updated_at |-> now]
        given == [k \in DOMAIN base \cup DOMAIN data |->
                     IF k \in DOMAIN data THEN data[k] ELSE base[k]]
    IN  IF has_version(tb) /\ "version" \notin DOMAIN given
        THEN [k \in DOMAIN given \cup {"version"} |-> IF k = "version" THEN 1 ELSE given[k]]
        ELSE given

\* _OP_MAP, the comparisons of numbers.
OP_MAP == {"eq", "neq", "gt", "gte", "lt", "lte"}

Filter(field, operator, value) == [field |-> field, operator |-> operator, value |-> value]

\* op_fn(table.c[col_name], value) on row r.
Holds(r, f) ==
    CASE f.operator = "eq" -> r[f.field] = f.value
      [] f.operator = "neq" -> r[f.field] # f.value
      [] f.operator = "gt" -> r[f.field] > f.value
      [] f.operator = "gte" -> r[f.field] >= f.value
      [] f.operator = "lt" -> r[f.field] < f.value
      [] f.operator = "lte" -> r[f.field] <= f.value

\* The filters list is called with.
Filters ==
    { << >>,
      <<Filter("name", "eq", 1)>>,
      <<Filter("name", "neq", 1)>>,
      <<Filter("nosuch", "eq", 1)>>,
      <<Filter("version", "gte", 2)>>,
      <<Filter("name", "eq", 1), Filter("nosuch", "eq", 0)>>,
      <<Filter("name", "lte", 1), Filter("id", "gt", 1)>> }

\* _apply_filters that lets no row pass a filter on a field the table lacks.
apply_filters_strict(rs, tb, filters) ==
    {r \in rs : \A i \in DOMAIN filters :
                   /\ filters[i].field \in Columns(tb)
                   /\ filters[i].operator \in OP_MAP
                   /\ Holds(r, filters[i])}

\* _apply_filters on the rows rs a query selects.
apply_filters(rs, tb, filters) ==
    {r \in rs : \A i \in DOMAIN filters :
                   (filters[i].field \in Columns(tb) /\ filters[i].operator \in OP_MAP)
                   => Holds(r, filters[i])}

\* GenericCrudRepository.list: the possible answers.
list_page(s, m, tb, t, offset, limit, filters) ==
    LET matching == apply_filters(Execute(s, m, Stmt("select", tb, Where({}, {t}, {}))),
                                  tb, filters)
        total == Cardinality(matching)
        rest == IF total > offset THEN total - offset ELSE 0
        n == IF limit < rest THEN limit ELSE rest
    IN  {[Result(s, "ok", items) EXCEPT !.total = total] :
            items \in {page \in SUBSET matching : Cardinality(page) = n}}

InitRepo ==
    /\ InitStore
    /\ IdleMerge
    /\ IdleIntercept
    /\ IdleProbe
    /\ table \in Tables
    /\ store \in {{}, SeedRows(table)}
    /\ work = {}
    /\ call = NoCall
    /\ upd = [p \in Procs |-> IdleUpd]

\* The next request: a new session, with nothing kept of the last call.
BeginRepoCall ==
    /\ probe # NoProbe
    /\ probe' = NoProbe
    /\ UNCHANGED <<icpt, mvars, lvars, tx, cvars>>

\* create_entity: create in a session with marker m, then db.commit().
ProbeCreate ==
    /\ probe = NoProbe
    /\ \E m \in Markers, t \in Tenants, data \in CreateData,
       uid \in Ids \ {x.id : x \in store}, now \in 1..MaxTime :
       \E r \in {create(store, m, table, t, data, uid)} :
          /\ \A x \in r.rows : x.version <= MaxVersion
          /\ store' = IF r.out = "ok" THEN r.rows ELSE store
          /\ probe' = [fn |-> "create", marker |-> m, tenant_id |-> t, data |-> data,
                       uid |-> uid, now |-> now, before |-> store, out |-> r.out,
                       row |-> row_data(table, t, data, uid, now)]
          /\ UNCHANGED <<icpt, mvars, lvars, tx, table, work, call, upd>>

\* list_entities, and list as the repository offers it.
ProbeList ==
    /\ probe = NoProbe
    /\ \E m \in Markers, t \in Tenants, offset \in 0..MaxLimit, limit \in 0..MaxLimit,
       filters \in Filters :
       \E r \in list_page(store, m, table, t, offset, limit, filters) :
          /\ probe' = [fn |-> "list", marker |-> m, tenant_id |-> t, offset |-> offset,
                       limit |-> limit, filters |-> filters, out |-> r.out,
                       ret |-> r.ret, total |-> r.total]
          /\ UNCHANGED <<icpt, mvars, lvars, tx, cvars>>

NextRepo == BeginRepoCall \/ ProbeCreate \/ ProbeList

SpecRepo == InitRepo /\ [][NextRepo]_vars

\* C21: create stores and returns a record whose id is the newly generated
\* value, which no existing row has, whose createdAt and updatedAt are both
\* the instant of the call, and whose version is 1 when the table has a
\* version column and data supplies none.
CreateAssigns ==
    (probe.fn = "create" /\ probe.out = "ok")
    => /\ probe.row.id = probe.uid
       /\ probe.row.id \notin {r.id : r \in probe.before}
       /\ probe.row.created_at = probe.now
       /\ probe.row.updated_at = probe.now
       /\ (has_version(table) /\ "version" \notin DOMAIN probe.data) => probe.row.version = 1
       /\ \E r \in store : r.id = probe.row.id /\ r.tenant_id = probe.row.tenant_id

InitUpdate ==
    /\ InitStore
    /\ IdleMerge
    /\ IdleIntercept
    /\ IdleProbe
    /\ table = "products"
    /\ \E v \in 1..(MaxVersion - 1), m \in {NoTenant, "t1"} :
          /\ store \in {{Row(1, "t1", v, 0)}, {Row(1, "t1", v, 0), Row(2, "t2", 1, 0)}}
          /\ call = [NoCall EXCEPT !.op = "update", !.marker = m, !.tenant_id = "t1",
                                   !.id = 1, !.ev = v]
    /\ work = {}
    /\ upd = [p \in Procs |-> IdleUpd]

\* A row of rs carries the uncommitted write of a request other than p.
RowLockedByOther(p, rs) ==
    \E q \in Procs \ {p} : upd[q].pc \in {"updated", "returned"} /\ upd[q].old \cap rs # {}

\* update: result = self.db.execute(stmt)
UpdExecute(p) ==
    /\ upd[p].pc = "start"
    /\ \E data \in Data :
          LET hit == Execute(store, call.marker, UpdateStmt(table, call.tenant_id, call.id, call.ev))
              new == {Updated(r, table, data, call.ev) : r \in hit}
          IN  /\ ~RowLockedByOther(p, hit)
              /\ upd' = [upd EXCEPT ![p] =
                    IF ~UpdateCompiles(table, data)
                    THEN [@ EXCEPT !.pc = "done", !.data = data, !.out = "compile_error"]
                    ELSE IF hit = {}
                    THEN [@ EXCEPT !.pc = "check", !.data = data]
                    ELSE IF \E n \in new, o \in store \ hit : n.id = o.id
                    THEN [@ EXCEPT !.pc = "done", !.data = data, !.out = "integrity_error"]
                    ELSE [@ EXCEPT !.pc = "updated", !.data = data, !.old = hit, !.new = new]]
    /\ UNCHANGED <<probe, icpt, mvars, lvars, tx, table, store, work, call>>

\* update: rowcount == 0, the existence check tells Conflict from not-found
UpdCheck(p) ==
    /\ upd[p].pc = "check"
    /\ LET exists == Execute(store, call.marker,
                             Stmt("select", table, Where({call.id}, {call.tenant_id}, {})))
       IN  upd' = [upd EXCEPT ![p].pc = "done",
                              ![p].out = IF exists # {} THEN "conflict" ELSE "absent"]
    /\ UNCHANGED <<probe, icpt, mvars, lvars, tx, table, store, work, call>>

\* update: the select that returns the updated row
UpdReselect(p) ==
    /\ upd[p].pc = "updated"
    /\ LET row == Execute((store \ upd[p].old) \cup upd[p].new, call.marker,
                          Stmt("select", table, Where({call.id}, {call.tenant_id}, {})))
       IN  upd' = [upd EXCEPT ![p].pc = "returned",
                              ![p].out = IF row # {} THEN "ok" ELSE "absent"]
    /\ UNCHANGED <<probe, icpt, mvars, lvars, tx, table, store, work, call>>

\* update_entity: db.commit() after a result
UpdCommit(p) ==
    /\ upd[p].pc = "returned"
    /\ upd[p].out = "ok"
    /\ store' = (store \ upd[p].old) \cup upd[p].new
    /\ upd' = [upd EXCEPT ![p].pc = "done"]
    /\ UNCHANGED <<probe, icpt, mvars, lvars, tx, table, work, call>>

\* update_entity: 404 without a result, the session closes uncommitted
UpdDiscard(p) ==
    /\ upd[p].pc = "returned"
    /\ upd[p].out # "ok"
    /\ upd' = [upd EXCEPT ![p].pc = "done"]
    /\ UNCHANGED <<probe, icpt, mvars, lvars, tx, table, store, work, call>>

NextUpdate ==
    \E p \in Procs :
       \/ UpdExecute(p)
       \/ UpdCheck(p)
       \/ UpdReselect(p)
       \/ UpdCommit(p)
       \/ UpdDiscard(p)

SpecUpdate == InitUpdate /\ [][NextUpdate]_vars

\* C5: of two concurrent updates of one row that present the version v the
\* row has, one succeeds, the other fails with Conflict, and the committed
\* version ends at v+1.
ConcurrentUpdateOneWinner ==
    (\A p \in Procs : upd[p].pc = "done") =>
        /\ \E p \in Procs : /\ upd[p].out = "ok"
                            /\ \A q \in Procs \ {p} : upd[q].out = "conflict"
        /\ \E r \in store : r.id = call.id /\ r.version = call.ev + 1

(***************************************************************************)
(* The merge engine as a state machine: a caller builds two documents,     *)
(* calls deep_merge, and later changes the returned document.              *)
(***************************************************************************)

InitMerge ==
    /\ \E b \in Docs, o \in Docs, same \in BOOLEAN :
          /\ same => b = o
          /\ LET rb == Build(<<>>, b)
                 ro == IF same THEN rb ELSE Build(rb.h, o)
             IN /\ heap = ro.h
                /\ baseRef = rb.s
                /\ overrideRef = ro.s
          /\ base0 = b
          /\ override0 = o
    /\ resultRef = NoSlot
    /\ mpc = "ready"
    /\ merged0 = VS(0)
    /\ InitStore
    /\ IdleCrud
    /\ IdleIntercept
    /\ IdleProbe

\* merged = MergeService.deep_merge(base, override)
DeepMerge ==
    /\ mpc = "ready"
    /\ LET r == deep_merge(heap, baseRef, overrideRef)
       IN /\ heap' = r.h
          /\ resultRef' = r.s
          /\ merged0' = Val(r.h, r.s)
    /\ mpc' = "merged"
    /\ UNCHANGED <<probe, icpt, baseRef, overrideRef, base0, override0, lvars, tx, cvars>>

\* A later change to the returned document: d["z"] = 9 on one of its dicts,
\* or l.append(9) on one of its lists.
MutateResult ==
    /\ mpc = "merged"
    /\ \E a \in Reach(heap, resultRef) :
          heap' = [heap EXCEPT ![a].es =
                      IF heap[a].t = "m"
                      THEN (IF HasKey(heap, a, "z")
                            THEN [@ EXCEPT ![KeyIndex(heap, a, "z")].s = SlotS(9)]
                            ELSE Append(@, [k |-> "z", s |-> SlotS(9)]))
                      ELSE Append(@, [k |-> "", s |-> SlotS(9)])]
    /\ mpc' = "mutated"
    /\ UNCHANGED <<probe, icpt, baseRef, overrideRef, resultRef, base0, override0, merged0, lvars, tx, cvars>>

NextMerge == DeepMerge \/ MutateResult

SpecMerge == InitMerge /\ [][NextMerge]_vars

BaseVal == Val(heap, baseRef)

OverrideVal == Val(heap, overrideRef)

ResultVal == Val(heap, resultRef)

(***************************************************************************)
(* Properties of the merge engine (checked under SpecMerge).               *)
(***************************************************************************)

IsIdMapV(x) == x.t = "m" /\ "id" \in DOMAIN x.f

AllIdsV(l) == \A i \in 1..Len(l.q) : IsIdMapV(l.q[i])

IdsV(l) == [i \in 1..Len(l.q) |-> l.q[i].f.id.n]

\* The elements of list l whose id is `id`.
WithId(l, id) == {i \in 1..Len(l.q) : l.q[i].f.id.n = id}

RECURSIVE NoDupIds(_)
\* No list of id-bearing maps anywhere in x holds two elements with the same id.
NoDupIds(x) ==
    IF x.t = "s" THEN TRUE
    ELSE IF x.t = "m" THEN \A key \in DOMAIN x.f : NoDupIds(x.f[key])
    ELSE /\ \A i \in 1..Len(x.q) : NoDupIds(x.q[i])
         /\ AllIdsV(x) => \A i, j \in 1..Len(x.q) : i # j => x.q[i].f.id # x.q[j].f.id

\* Both arguments hold a list under "items".
BothItemLists ==
    /\ "items" \in DOMAIN base0.f /\ base0.f.items.t = "l"
    /\ "items" \in DOMAIN override0.f /\ override0.f.items.t = "l"

\* C6 as stated: deepMerge(X, X) = X for every document X.
MergeIdempotent == (mpc = "merged" /\ base0 = override0) => merged0 = base0

\* C6 amended: deepMerge(X, X) = X for every document X in which no list of
\* id-bearing maps holds two elements with the same id.
MergeIdempotentUniqueIds ==
    (mpc = "merged" /\ base0 = override0 /\ NoDupIds(base0)) => merged0 = base0

\* Witness of C6: deep_merge returned for two equal documents whose "items" is a
\* list of two id-bearing maps with distinct ids.
MergeIdempotentWitness ==
    /\ mpc = "merged" /\ base0 = override0 /\ NoDupIds(base0)
    /\ BothItemLists /\ AllIdsV(base0.f.items) /\ Len(base0.f.items.q) = 2

\* C7: for two lists of id-bearing maps the result holds one element per id of
\* either list, base ids first in their order, then override-only ids in their
\* order; an id of one list only keeps its element, an id of both lists holds
\* the recursive merge of the two elements.
MergeArraysById ==
    (mpc = "merged" /\ BothItemLists
        /\ AllIdsV(base0.f.items) /\ AllIdsV(override0.f.items))
    => LET b == base0.f.items
           o == override0.f.items
           r == merged0.f.items
       IN /\ r.t = "l" /\ AllIdsV(r)
          /\ IdsV(r) = Uniq(IdsV(b) \o IdsV(o), 1, <<>>)
          /\ \A j \in 1..Len(r.q) :
                LET id == r.q[j].f.id.n
                    inB == WithId(b, id)
                    inO == WithId(o, id)
                IN /\ (inO = {}) => \E i \in inB : r.q[j] = b.q[i]
                   /\ (inB = {}) /\ Cardinality(inO) = 1 => \E i \in inO : r.q[j] = o.q[i]
                   /\ Cardinality(inB) = 1 /\ Cardinality(inO) = 1 =>
                         \E i \in inB, k \in inO : r.q[j] = MergeVal(b.q[i], o.q[k])

\* C8: when one of the two lists holds an element that is not an id-bearing map,
\* the result is exactly the override list.
MergeArraysReplace ==
    (mpc = "merged" /\ BothItemLists
        /\ ~(AllIdsV(base0.f.items) /\ AllIdsV(override0.f.items)))
    => merged0.f.items = override0.f.items

\* C9: the merge of two maps keeps every key of either side; a one-sided key keeps
\* its value, two maps are merged recursively, and on a conflict of two scalars
\* or of two kinds the override's value wins.
MergeMaps ==
    mpc = "merged" =>
       LET B == base0.f
           O == override0.f
           R == merged0.f
       IN /\ merged0.t = "m"
          /\ DOMAIN R = (DOMAIN B) \cup (DOMAIN O)
          /\ \A key \in DOMAIN R :
                /\ key \notin DOMAIN O => R[key] = B[key]
                /\ key \notin DOMAIN B => R[key] = O[key]
                /\ (key \in DOMAIN B /\ key \in DOMAIN O) =>
                      /\ (B[key].t = "m" /\ O[key].t = "m") => R[key] = MergeVal(B[key], O[key])
                      /\ (B[key].t = "s" \/ O[key].t = "s" \/ B[key].t # O[key].t) =>
                            R[key] = O[key]

\* Witness of C9: a merge with a one-sided key on each side, a key holding a map
\* on both sides, and inside it a scalar conflict.
MergeMapsWitness ==
    /\ mpc = "merged"
    /\ base0 = VM([m |-> VM([a |-> VS(1)]), a |-> VS(1)])
    /\ override0 = VM([m |-> VM([a |-> VS(2), b |-> VS(1)]), b |-> VS(2)])
    /\ merged0 = VM([m |-> VM([a |-> VS(2), b |-> VS(1)]), a |-> VS(1), b |-> VS(2)])

\* C10: deep_merge leaves base and override equal to their values before the
\* call, the result shares no container with them, and a later change to the
\* result changes neither.
MergeInputsUntouched ==
    mpc \in {"merged", "mutated"} =>
       /\ BaseVal = base0
       /\ OverrideVal = override0
       /\ Reach(heap, resultRef) \cap (Reach(heap, baseRef) \cup Reach(heap, overrideRef)) = {}

\* Witness of C10: the returned document, which has nested containers, was
\* changed after the call.
MergeInputsUntouchedWitness ==
    /\ mpc = "mutated"
    /\ ResultVal # merged0
    /\ Cardinality(Reach(heap, resultRef)) >= 3

====
